---- MODULE Spec2Model ----
(***************************************************************************)
(* carakube: the scan-correlate-publish engine.                            *)
(*                                                                         *)
(* The graph builder (ClusterGraphBuilder) is translated from the Python  *)
(* listings of the technical design; the scan scheduler, the rule engine  *)
(* and the snapshot publisher are not part of the sources at hand and are *)
(* modelled from the specification.                                        *)
(*                                                                         *)
(* Strings that are concatenated or compared (names, ids) are sequences   *)
(* of one-character strings, so that "pod-" + ns + "-" + name is a real   *)
(* concatenation and the order on ids is the code-point order.            *)
(***************************************************************************)
EXTENDS Integers, Sequences, FiniteSets, TLC

VARIABLES
    cluster,    \* listings the resource API returns at the moment
    fetched,    \* listings obtained by the pass at hand
    nodes,      \* ClusterGraphBuilder.nodes
    links,      \* ClusterGraphBuilder.links
    graph,      \* the Graph value returned by build_graph
    prevGraph,  \* the Graph value of the run before
    clock,      \* datetime.utcnow()
    pc,         \* position of the pass at hand
    step,       \* index into FetchOrder of the next listing call
    ok,         \* per fetch point: did its listing call succeed in this pass
    produced,   \* findings returned by the rule categories in this pass
    mayFail,    \* fetch points whose listing call may fail (environment)
    active,     \* number of scan passes executing
    published,  \* the publisher's "current snapshot" slot
    atStart,    \* the slot's value when the pass at hand started
    lastRead,   \* value obtained by the last getLatestSnapshot
    shutdown,   \* shutdown signal observed
    ticks,      \* timer ticks so far
    skipped,    \* ticks that arrived while a pass was running
    completed,  \* scan passes that ended by publishing
    response,   \* body of the last answer fetchGraph() obtained
    call,       \* result of the last fetchGraph()
    clusterStatus,  \* the demo page's clusterStatus state
    fetches,    \* fetchGraph() calls in flight
    polls,      \* fetchData() calls so far
    storeNodes, \* useGraphStore: nodes
    storeEdges, \* useGraphStore: edges
    updateLayoutCounter,    \* useGraphStore: updateLayoutCounter
    incidents,  \* useIncidentStore: incidents
    fullNodesData,  \* the demo page's fullNodesData state
    laidOut,    \* value of updateLayoutCounter the layout effect last ran for
    layouts,    \* getLayoutedElements() promises in flight
    started,    \* layouts started so far
    newest,     \* number and node ids of the newest poll that returned success
    states,     \* useVulnerabilityStatesStore: states
    isLoading,  \* IncidentReportCard: isLoading, per card
    requests,   \* triggerVulnerabilityFix() calls in flight, per vulnerability
    clicks,     \* Create-PR clicks so far
    lastFix,    \* the last handleCreatePR step: id, phase, response
    updatables, \* AnimationManager.updatables
    frameId,    \* AnimationManager.frameId (0: null)
    scheduled,  \* ids of the frame callbacks requestAnimationFrame holds
    nextFrame,  \* next id requestAnimationFrame returns
    updates,    \* update() calls of each item in the last fired frame
    tree,       \* the tree given to TreeGraph
    queue,      \* flattenTreeToLevels: queue
    levels,     \* flattenTreeToLevels: levels
    flattened,  \* flattenTreeToLevels has returned
    connections \* TreeGraph: connections

vars == <<cluster, fetched, nodes, links, graph, prevGraph, clock, pc, step, ok,
          produced, mayFail, active, published, atStart, lastRead, shutdown, ticks,
          skipped, completed, response, call, clusterStatus,
          fetches, polls, storeNodes, storeEdges, updateLayoutCounter,
          incidents, fullNodesData, laidOut, layouts, started, newest, states,
          isLoading, requests, clicks, lastFix, updatables, frameId,
          scheduled, nextFrame, updates, tree, queue, levels, flattened,
          connections>>

\* the route handler and fetchGraph
consumerVars == <<response, call, clusterStatus, fetches, polls>>

\* the graph store, the incident store and the layout
pageVars == <<storeNodes, storeEdges, updateLayoutCounter, incidents, fullNodesData,
              laidOut, layouts, started, newest>>

\* the incident cards and the vulnerability states
cardVars == <<states, isLoading, requests, clicks, lastFix>>

\* the animation manager
animVars == <<updatables, frameId, scheduled, nextFrame, updates>>

\* the tree graph
treeVars == <<tree, queue, levels, flattened, connections>>

uiVars == <<consumerVars, pageVars, cardVars, animVars, treeVars>>

passVars == <<cluster, fetched, nodes, links, graph, prevGraph, clock, pc, step, ok,
              produced, mayFail>>

schedVars == <<active, published, atStart, lastRead, shutdown, ticks, skipped,
               completed>>

----------------------------------------------------------------------------
(* Bounds *)

MaxPods == 2       \* pods in one listing
MaxRuns == 2       \* runs of the builder over the same listings
MaxTicks == 3      \* timer ticks
MaxRules == 2      \* rules of one ClusterRole
MaxPolls == 2      \* fetchData() calls of the demo page
MaxLayouts == 1    \* layouts started
MaxClicks == 2     \* clicks on Create PR buttons
MaxFrames == 3     \* animation frames requested
MaxNodes == 5      \* nodes of a tree

----------------------------------------------------------------------------
(* Characters and strings *)

\* code points of the characters that occur in ids
Code(c) ==
    CASE c = "-" -> 45
      [] c = "1" -> 49
      [] c = "2" -> 50
      [] c = "3" -> 51
      [] c = "4" -> 52
      [] c = "a" -> 97
      [] c = "b" -> 98
      [] c = "c" -> 99
      [] c = "d" -> 100
      [] c = "e" -> 101
      [] c = "g" -> 103
      [] c = "h" -> 104
      [] c = "i" -> 105
      [] c = "l" -> 108
      [] c = "n" -> 110
      [] c = "o" -> 111
      [] c = "p" -> 112
      [] c = "r" -> 114
      [] c = "s" -> 115
      [] c = "t" -> 116
      [] c = "v" -> 118
      [] c = "w" -> 119

\* Python's str comparison: -1, 0, 1
RECURSIVE StrCmp(_, _)
StrCmp(s, t) ==
    IF s = <<>> /\ t = <<>> THEN 0
    ELSE IF s = <<>> THEN -1
    ELSE IF t = <<>> THEN 1
    ELSE IF Code(Head(s)) < Code(Head(t)) THEN -1
    ELSE IF Code(Head(s)) > Code(Head(t)) THEN 1
    ELSE StrCmp(Tail(s), Tail(t))

Dash == <<"-">>
NoName == <<>>

----------------------------------------------------------------------------
(* Node ids: the f-strings of the add_*_nodes methods *)

NamespaceId(name) == <<"n", "s", "-">> \o name
NodeId(name) == <<"n", "o", "d", "e", "-">> \o name
PodId(ns, name) == <<"p", "o", "d", "-">> \o ns \o Dash \o name
ServiceId(ns, name) == <<"s", "v", "c", "-">> \o ns \o Dash \o name
IngressId(ns, name) == <<"i", "n", "g", "r", "e", "s", "s", "-">> \o ns \o Dash \o name

\* the node variants of the published shape
NodeKinds == {"namespace", "node", "pod", "service", "ingress"}

----------------------------------------------------------------------------
(* Resources of the bounded cluster *)

PodKeys == {<<(<<"a">>), (<<"b">>)>>, <<(<<"a">>), (<<"b", "-", "b">>)>>,
            <<(<<"a", "-", "b">>), (<<"b">>)>>}
WorkerName == <<"w">>
SvcName == <<"s">>
IngName == <<"i">>

AppX == {<<"app", "x">>}

\* the container's securityContext: absent, or its fields (each may be unset)
NoSecurityContext ==
    [present |-> FALSE, privileged |-> "unset", runAsNonRoot |-> "unset",
     runAsUser |-> "unset"]

SecurityContext(privileged, runAsNonRoot, runAsUser) ==
    [present |-> TRUE, privileged |-> privileged, runAsNonRoot |-> runAsNonRoot,
     runAsUser |-> runAsUser]

\* a pod without securityContext, limits or pinned image, and a hardened one
BarePod == [sc |-> NoSecurityContext, limits |-> {}, automount |-> "unset",
            serviceAccount |-> "default", tag |-> "latest"]
HardenedPod == [sc |-> SecurityContext("false", "true", "1000"),
                limits |-> {"cpu", "memory"}, automount |-> "false",
                serviceAccount |-> "app", tag |-> "1.25"]

Pod(key, nodeName, labels, sec) ==
    [namespace |-> key[1], name |-> key[2], node_name |-> nodeName,
     labels |-> labels, sec |-> sec]

TopologyPods ==
    {Pod(k, sh[1], sh[2], BarePod) :
        k \in PodKeys,
        sh \in {<<NoName, {}>>, <<WorkerName, AppX>>}}

Service(ns, selector, type) ==
    [namespace |-> ns, name |-> SvcName, selector |-> selector, type |-> type]

TopologyServices ==
    {Service(<<"a">>, {}, "ClusterIP"), Service(<<"a">>, AppX, "ClusterIP"),
     Service(<<"a", "-", "b">>, AppX, "ClusterIP")}

\* rules of an ingress: each rule is the list of its paths' backend service
\* names (NoName: the path has no backend service; no paths: no http block)
IngressRules == {<<>>, <<(<<>>)>>, <<(<<NoName>>)>>, <<(<<SvcName>>)>>,
                 <<(<<SvcName>>), (<<SvcName>>)>>}

Ingress(ns, rules) == [namespace |-> ns, name |-> IngName, rules |-> rules]

\* listings: sequences without two items of the same (namespace, name)
Listings(S, n) ==
    {l \in UNION {[1..k -> S] : k \in 0..n} :
        \A i, j \in DOMAIN l :
            (l[i].namespace = l[j].namespace /\ l[i].name = l[j].name) => i = j}

NamespaceListings == {<<>>, <<(<<"a">>)>>, <<(<<"a">>), (<<"a", "-", "b">>)>>}
NodeListings == {<<>>, <<WorkerName>>}
ServiceListings == Listings(TopologyServices, 1)
IngressListings == {<<>>} \cup {<<Ingress(<<"a">>, r)>> : r \in IngressRules}

----------------------------------------------------------------------------
(* Helpers *)

RECURSIVE Concat(_)
Concat(ss) == IF ss = <<>> THEN <<>> ELSE Head(ss) \o Concat(Tail(ss))

Count(s, P(_)) == Cardinality({i \in DOMAIN s : P(s[i])})

----------------------------------------------------------------------------
(* Rule engine: one operator per category, each over its own listing.    *)
(* A finding names the object that owns it.                              *)

Categories == <<"container_security", "resource_limits", "serviceaccount_security",
                "network_exposure", "rbac_wildcards", "image_security">>

Finding(type, severity, category, kind, ns, name) ==
    [type |-> type, severity |-> severity, category |-> category, detail |-> "",
     owner |-> [kind |-> kind, namespace |-> ns, name |-> name]]

PodFinding(type, severity, category, pod) ==
    Finding(type, severity, category, "pod", pod.namespace, pod.name)

\* a rule that looks only at containers that have a securityContext
scan_container_security_fail_open(pods) ==
    Concat([i \in DOMAIN pods |->
        IF /\ pods[i].sec.sc.present
           /\ pods[i].sec.sc.runAsNonRoot # "true"
           /\ pods[i].sec.sc.runAsUser \in {"unset", "0"}
        THEN <<PodFinding("running_as_root", "high", "container_security", pods[i])>>
        ELSE <<>>])

\* privileged flag; running as root: runAsNonRoot not true and runAsUser 0 or
\* unset (an absent securityContext has every field unset)
scan_container_security(pods) ==
    Concat([i \in DOMAIN pods |->
        (IF pods[i].sec.sc.privileged = "true"
         THEN <<PodFinding("privileged_container", "critical", "container_security",
                           pods[i])>>
         ELSE <<>>)
        \o
        (IF /\ pods[i].sec.sc.runAsNonRoot # "true"
            /\ pods[i].sec.sc.runAsUser \in {"unset", "0"}
         THEN <<PodFinding("running_as_root", "high", "container_security", pods[i])>>
         ELSE <<>>)])

scan_resource_limits(pods) ==
    Concat([i \in DOMAIN pods |->
        (IF "cpu" \in pods[i].sec.limits THEN <<>>
         ELSE <<[PodFinding("missing_resource_limits", "high", "resource_limits", pods[i])
                    EXCEPT !.detail = "cpu"]>>)
        \o
        (IF "memory" \in pods[i].sec.limits THEN <<>>
         ELSE <<[PodFinding("missing_resource_limits", "high", "resource_limits", pods[i])
                    EXCEPT !.detail = "memory"]>>)])

scan_serviceaccount_security(pods) ==
    Concat([i \in DOMAIN pods |->
        (IF pods[i].sec.automount = "false" THEN <<>>
         ELSE <<PodFinding("automounted_sa_token", "medium", "serviceaccount_security", pods[i])>>)
        \o
        (IF pods[i].sec.serviceAccount # "default" THEN <<>>
         ELSE <<PodFinding("default_serviceaccount", "medium", "serviceaccount_security", pods[i])>>)])

scan_network_exposure(services, namespaces, policies) ==
    Concat([i \in DOMAIN services |->
        IF services[i].type = "NodePort"
        THEN <<Finding("nodeport_service", "high", "network_exposure", "service",
                       services[i].namespace, services[i].name)>>
        ELSE <<>>])
    \o
    Concat([i \in DOMAIN namespaces |->
        IF namespaces[i] \in policies THEN <<>>
        ELSE <<Finding("no_network_policy", "medium", "network_exposure", "namespace",
                       NoName, namespaces[i])>>])

Axes == <<"verbs", "resources", "apiGroups">>

\* one high finding per wildcarded axis, also when all three are wildcarded
scan_rbac_rule_per_axis(name, wild) ==
    Concat([a \in DOMAIN Axes |->
        IF Axes[a] \in wild
        THEN <<[Finding("rbac_wildcard", "high", "rbac_wildcards", "clusterrole",
                        NoName, name) EXCEPT !.detail = Axes[a]]>>
        ELSE <<>>])

\* the findings of one rule of a ClusterRole; the rule is given by the set of
\* its axes that contain "*": one finding per wildcarded axis, and a single
\* critical one when all three are wildcarded
scan_rbac_rule(name, wild) ==
    IF \A a \in DOMAIN Axes : Axes[a] \in wild
    THEN <<[Finding("rbac_wildcard", "critical", "rbac_wildcards", "clusterrole", NoName,
                    name) EXCEPT !.detail = "all"]>>
    ELSE Concat([a \in DOMAIN Axes |->
            IF Axes[a] \in wild
            THEN <<[Finding("rbac_wildcard", "high", "rbac_wildcards", "clusterrole",
                            NoName, name) EXCEPT !.detail = Axes[a]]>>
            ELSE <<>>])

\* a role is its name and, per rule, the set of wildcarded axes
scan_rbac_wildcards(roles) ==
    Concat([i \in DOMAIN roles |->
        Concat([r \in DOMAIN roles[i].rules |->
            scan_rbac_rule(roles[i].name, roles[i].rules[r])])])

scan_image_security(pods) ==
    Concat([i \in DOMAIN pods |->
        IF pods[i].sec.tag = "latest"
        THEN <<PodFinding("mutable_image_tag", "medium", "image_security", pods[i])>>
        ELSE <<>>])

\* the findings of one category over the listings l
ScanCategory(c, l) ==
    CASE c = "container_security" -> scan_container_security(l.pods)
      [] c = "resource_limits" -> scan_resource_limits(l.pods)
      [] c = "serviceaccount_security" -> scan_serviceaccount_security(l.pods)
      [] c = "network_exposure" ->
            scan_network_exposure(l.services, l.namespaces, l.policies)
      [] c = "rbac_wildcards" -> scan_rbac_wildcards(l.roles)
      [] c = "image_security" -> scan_image_security(l.pods)

\* scan(): the categories in their fixed order
ScanAll(l) == Concat([i \in DOMAIN Categories |-> ScanCategory(Categories[i], l)])

----------------------------------------------------------------------------
(* ClusterGraphBuilder: every add_* method appends to the list it is given *)

Node(id, label, type, ns) ==
    [id |-> id, label |-> label, type |-> type, namespace |-> ns, findings |-> <<>>]

Link(source, target, type) == [source |-> source, target |-> target, type |-> type]

add_namespace_nodes(ns, l) ==
    ns \o [i \in DOMAIN l.namespaces |->
        Node(NamespaceId(l.namespaces[i]), l.namespaces[i], "namespace", NoName)]

add_node_nodes(ns, l) ==
    ns \o [i \in DOMAIN l.nodes |->
        Node(NodeId(l.nodes[i]), l.nodes[i], "node", NoName)]

add_pod_nodes(ns, l) ==
    ns \o [i \in DOMAIN l.pods |->
        Node(PodId(l.pods[i].namespace, l.pods[i].name), l.pods[i].name, "pod",
             l.pods[i].namespace)]

add_service_nodes(ns, l) ==
    ns \o [i \in DOMAIN l.services |->
        Node(ServiceId(l.services[i].namespace, l.services[i].name), l.services[i].name,
             "service", l.services[i].namespace)]

add_ingress_nodes(ns, l) ==
    ns \o [i \in DOMAIN l.ingresses |->
        Node(IngressId(l.ingresses[i].namespace, l.ingresses[i].name), l.ingresses[i].name,
             "ingress", l.ingresses[i].namespace)]

add_namespace_contains_links(ls, l) ==
    ls
    \o [i \in DOMAIN l.pods |->
          Link(NamespaceId(l.pods[i].namespace),
               PodId(l.pods[i].namespace, l.pods[i].name), "contains")]
    \o [i \in DOMAIN l.services |->
          Link(NamespaceId(l.services[i].namespace),
               ServiceId(l.services[i].namespace, l.services[i].name), "contains")]

\* a builder that links a pod to its node only when the pod has no labels
add_pod_to_node_links_labelled(ls, l) ==
    ls \o Concat([i \in DOMAIN l.pods |->
        IF l.pods[i].node_name # NoName /\ l.pods[i].labels = {}
        THEN <<Link(PodId(l.pods[i].namespace, l.pods[i].name),
                    NodeId(l.pods[i].node_name), "runs-on")>>
        ELSE <<>>])

add_pod_to_node_links(ls, l) ==
    ls \o Concat([i \in DOMAIN l.pods |->
        IF l.pods[i].node_name # NoName
        THEN <<Link(PodId(l.pods[i].namespace, l.pods[i].name),
                    NodeId(l.pods[i].node_name), "runs-on")>>
        ELSE <<>>])

\* every pair of the selector is a pair of the labels
matches_selector(labels, selector) == \A kv \in selector : kv \in labels

add_service_to_pod_links(ls, l) ==
    ls \o Concat([i \in DOMAIN l.services |->
        IF l.services[i].selector = {} THEN <<>>
        ELSE Concat([j \in DOMAIN l.pods |->
            IF /\ l.pods[j].namespace = l.services[i].namespace
               /\ matches_selector(l.pods[j].labels, l.services[i].selector)
            THEN <<Link(ServiceId(l.services[i].namespace, l.services[i].name),
                        PodId(l.services[i].namespace, l.pods[j].name), "exposes")>>
            ELSE <<>>])])

add_ingress_to_service_links(ls, l) ==
    ls \o Concat([i \in DOMAIN l.ingresses |->
        Concat([r \in DOMAIN l.ingresses[i].rules |->
            Concat([p \in DOMAIN l.ingresses[i].rules[r] |->
                IF l.ingresses[i].rules[r][p] # NoName
                THEN <<Link(IngressId(l.ingresses[i].namespace, l.ingresses[i].name),
                            ServiceId(l.ingresses[i].namespace, l.ingresses[i].rules[r][p]),
                            "routes-to")>>
                ELSE <<>>])])])

BuildNodes(start, l) ==
    add_ingress_nodes(add_service_nodes(add_pod_nodes(add_node_nodes(
        add_namespace_nodes(start, l), l), l), l), l)

BuildLinks(start, l) ==
    add_ingress_to_service_links(add_service_to_pod_links(add_pod_to_node_links(
        add_namespace_contains_links(start, l), l), l), l)

\* a finding is attached to the node of the object that owns it
Owns(n, f) ==
    /\ n.type = f.owner.kind
    /\ n.namespace = f.owner.namespace
    /\ n.label = f.owner.name

AttachFindings(ns, fs) ==
    [i \in DOMAIN ns |->
        [ns[i] EXCEPT !.findings = SelectSeq(fs, LAMBDA f : Owns(ns[i], f))]]

LinkKinds == {"contains", "runs-on", "exposes", "routes-to"}

\* the keys of stats.node_types and stats.link_types
StatsNodeTypes == {"namespace", "node", "pod", "service"}
StatsLinkTypes == {"contains", "runs-on", "exposes"}

ComputeStats(ns, ls) ==
    [total_nodes |-> Len(ns),
     total_links |-> Len(ls),
     node_types |-> [k \in StatsNodeTypes |->
                        Cardinality({i \in DOMAIN ns : ns[i].type = k})],
     link_types |-> [k \in StatsLinkTypes |->
                        Cardinality({i \in DOMAIN ls : ls[i].type = k})]]

build_graph(ns, ls, now) ==
    [timestamp |-> now, nodes |-> ns, links |-> ls, stats |-> ComputeStats(ns, ls)]

NoGraph == [timestamp |-> 0, nodes |-> <<>>, links |-> <<>>, stats |-> ComputeStats(<<>>, <<>>)]

----------------------------------------------------------------------------
(* The scan pass *)

Kinds == <<"namespaces", "nodes", "pods", "services", "ingresses">>

\* listing calls of one pass, in the order scan() makes them
FetchOrder == Categories \o Kinds

FetchPoints == {FetchOrder[i] : i \in DOMAIN FetchOrder}

IsCategory(p) == \E i \in DOMAIN Categories : Categories[i] = p

NoListings == [namespaces |-> <<>>, nodes |-> <<>>, pods |-> <<>>, services |-> <<>>,
               ingresses |-> <<>>, roles |-> <<>>, policies |-> {}]

NothingFetched == [p \in FetchPoints |-> FALSE]

Waiting == [status |-> "waiting", data |-> NoGraph, summary |-> NothingFetched]

\* a publisher that reports every completed pass as success
StatusOfNeverEmpty(g) == "success"

\* the status a completed pass publishes
StatusOf(g) == IF g.nodes = <<>> THEN "empty" ELSE "success"

\* ClusterGraphBuilder.__init__
ReusedClusterGraphBuilder == [nodes |-> nodes, links |-> links]
ClusterGraphBuilder == [nodes |-> <<>>, links |-> <<>>]

\* a tick that starts a pass whether or not one is running
TickOverlapping ==
    /\ ~shutdown
    /\ ticks < MaxTicks
    /\ ticks' = ticks + 1
    /\ active' = active + 1
    /\ pc' = "scan"
    /\ step' = 1
    /\ fetched' = NoListings
    /\ produced' = <<>>
    /\ ok' = NothingFetched
    /\ atStart' = published
    /\ UNCHANGED <<cluster, nodes, links, graph, prevGraph, clock, mayFail, published,
                   lastRead, shutdown, skipped, completed>>
    /\ UNCHANGED uiVars

\* a timer tick with the API reachable: starts a pass unless one is running
Tick ==
    /\ ~shutdown
    /\ ticks < MaxTicks
    /\ ticks' = ticks + 1
    /\ IF active > 0
       THEN /\ skipped' = skipped + 1
            /\ UNCHANGED <<fetched, produced, ok, pc, step, active, atStart>>
       ELSE /\ active' = active + 1
            /\ pc' = "scan"
            /\ step' = 1
            /\ fetched' = NoListings
            /\ produced' = <<>>
            /\ ok' = NothingFetched
            /\ atStart' = published
            /\ UNCHANGED skipped
    /\ UNCHANGED <<cluster, nodes, links, graph, prevGraph, clock, mayFail, published,
                   lastRead, shutdown, completed>>
    /\ UNCHANGED uiVars

\* an unreachable API that always reports initializing
TickUnreachableRegress ==
    /\ ~shutdown
    /\ ticks < MaxTicks
    /\ active = 0
    /\ ticks' = ticks + 1
    /\ published' = [published EXCEPT !.status = "initializing"]
    /\ UNCHANGED <<cluster, fetched, nodes, links, graph, prevGraph, clock, pc, step, ok,
                   produced, mayFail, active, atStart, lastRead, shutdown, skipped, completed>>
    /\ UNCHANGED uiVars

\* an unreachable API that ends the scheduler
TickUnreachableCrashes ==
    /\ ~shutdown
    /\ ticks < MaxTicks
    /\ active = 0
    /\ ticks' = ticks + 1
    /\ shutdown' = TRUE
    /\ UNCHANGED <<cluster, fetched, nodes, links, graph, prevGraph, clock, pc, step, ok,
                   produced, mayFail, active, published, atStart, lastRead, skipped,
                   completed>>
    /\ UNCHANGED uiVars

\* a timer tick with the API unreachable: the pass ends at once
TickUnreachable ==
    /\ ~shutdown
    /\ ticks < MaxTicks
    /\ active = 0
    /\ ticks' = ticks + 1
    /\ published' = IF published.status = "waiting"
                    THEN [published EXCEPT !.status = "initializing"]
                    ELSE published
    /\ UNCHANGED <<cluster, fetched, nodes, links, graph, prevGraph, clock, pc, step, ok,
                   produced, mayFail, active, atStart, lastRead, shutdown, skipped, completed>>
    /\ UNCHANGED uiVars

Advance == IF step = Len(FetchOrder) THEN "assemble" ELSE "scan"

\* the listing call and the rules of one category
ScanStep ==
    /\ pc = "scan"
    /\ IsCategory(FetchOrder[step])
    /\ \E success \in (IF FetchOrder[step] \in mayFail THEN BOOLEAN ELSE {TRUE}) :
          /\ ok' = [ok EXCEPT ![FetchOrder[step]] = success]
          /\ produced' = IF success
                         THEN produced \o ScanCategory(FetchOrder[step], cluster)
                         ELSE produced
    /\ step' = step + 1
    /\ pc' = Advance
    /\ UNCHANGED <<cluster, fetched, nodes, links, graph, prevGraph, clock, mayFail>>
    /\ UNCHANGED schedVars
    /\ UNCHANGED uiVars

\* a listing call whose failure ends the pass
FetchKindAborting ==
    /\ pc = "scan"
    /\ ~IsCategory(FetchOrder[step])
    /\ \E success \in (IF FetchOrder[step] \in mayFail THEN BOOLEAN ELSE {TRUE}) :
          /\ ok' = [ok EXCEPT ![FetchOrder[step]] = success]
          /\ fetched' = IF success
                        THEN [fetched EXCEPT ![FetchOrder[step]] = cluster[FetchOrder[step]]]
                        ELSE fetched
          /\ pc' = IF success THEN Advance ELSE "idle"
          /\ active' = IF success THEN active ELSE active - 1
    /\ step' = step + 1
    /\ UNCHANGED <<cluster, nodes, links, graph, prevGraph, clock, produced, mayFail,
                   published, atStart, lastRead, shutdown, ticks, skipped, completed>>
    /\ UNCHANGED uiVars

\* the listing call of one resource kind
FetchKind ==
    /\ pc = "scan"
    /\ ~IsCategory(FetchOrder[step])
    /\ \E success \in (IF FetchOrder[step] \in mayFail THEN BOOLEAN ELSE {TRUE}) :
          /\ ok' = [ok EXCEPT ![FetchOrder[step]] = success]
          /\ fetched' = IF success
                        THEN [fetched EXCEPT ![FetchOrder[step]] = cluster[FetchOrder[step]]]
                        ELSE fetched
    /\ step' = step + 1
    /\ pc' = Advance
    /\ UNCHANGED <<cluster, nodes, links, graph, prevGraph, clock, produced, mayFail>>
    /\ UNCHANGED schedVars
    /\ UNCHANGED uiVars

\* an assembly that writes the nodes into the published snapshot as it goes
AssembleInPlace ==
    /\ pc = "assemble"
    /\ nodes' = AttachFindings(BuildNodes(ClusterGraphBuilder.nodes, fetched), produced)
    /\ links' = BuildLinks(ClusterGraphBuilder.links, fetched)
    /\ graph' = build_graph(nodes', links', clock)
    /\ prevGraph' = graph
    /\ clock' = clock + 1
    /\ pc' = "publish"
    /\ published' = [published EXCEPT !.data.nodes = nodes']
    /\ UNCHANGED <<cluster, fetched, step, ok, produced, mayFail, active, atStart,
                   lastRead, shutdown, ticks, skipped, completed>>
    /\ UNCHANGED uiVars

\* scan_topology: a new builder, the add_* methods, the findings, build_graph
Assemble ==
    /\ pc = "assemble"
    /\ nodes' = AttachFindings(BuildNodes(ClusterGraphBuilder.nodes, fetched), produced)
    /\ links' = BuildLinks(ClusterGraphBuilder.links, fetched)
    /\ graph' = build_graph(nodes', links', clock)
    /\ prevGraph' = graph
    /\ clock' = clock + 1
    /\ pc' = "publish"
    /\ UNCHANGED <<cluster, fetched, step, ok, produced, mayFail>>
    /\ UNCHANGED schedVars
    /\ UNCHANGED uiVars

\* the swap of the "current snapshot" reference
Publish ==
    /\ pc = "publish"
    /\ active > 0
    /\ published' = [status |-> StatusOf(graph), data |-> graph, summary |-> ok]
    /\ active' = active - 1
    /\ completed' = completed + 1
    /\ pc' = "idle"
    /\ UNCHANGED <<cluster, fetched, nodes, links, graph, prevGraph, clock, step, ok,
                   produced, mayFail, atStart, lastRead, shutdown, ticks, skipped>>
    /\ UNCHANGED uiVars

\* an exception in the middle of the pass: the pass ends, nothing is published
Throw ==
    /\ pc \in {"scan", "assemble"}
    /\ active > 0
    /\ active' = active - 1
    /\ pc' = "idle"
    /\ UNCHANGED <<cluster, fetched, nodes, links, graph, prevGraph, clock, step, ok,
                   produced, mayFail, published, atStart, lastRead, shutdown, ticks, skipped, completed>>
    /\ UNCHANGED uiVars

\* the write target is unavailable: the pass ends, the slot keeps its value
PublishFails ==
    /\ pc = "publish"
    /\ active > 0
    /\ active' = active - 1
    /\ pc' = "idle"
    /\ UNCHANGED <<cluster, fetched, nodes, links, graph, prevGraph, clock, step, ok,
                   produced, mayFail, published, atStart, lastRead, shutdown, ticks, skipped, completed>>
    /\ UNCHANGED uiVars

\* a shutdown that publishes what the pass in flight has built so far
ShutdownFlushes ==
    /\ ~shutdown
    /\ shutdown' = TRUE
    /\ active' = 0
    /\ pc' = IF active > 0 THEN "cancelled" ELSE "stopped"
    /\ published' = IF active > 0
                    THEN [status |-> "success", data |-> build_graph(nodes, links, clock),
                          summary |-> ok]
                    ELSE published
    /\ UNCHANGED <<cluster, fetched, nodes, links, graph, prevGraph, clock, step, ok,
                   produced, mayFail, atStart, lastRead, ticks, skipped, completed>>
    /\ UNCHANGED uiVars

\* the shutdown signal: a pass in flight is aborted and publishes nothing
Shutdown ==
    /\ ~shutdown
    /\ shutdown' = TRUE
    /\ active' = 0
    /\ pc' = IF active > 0 THEN "cancelled" ELSE "stopped"
    /\ UNCHANGED <<cluster, fetched, nodes, links, graph, prevGraph, clock, step, ok,
                   produced, mayFail, published, atStart, lastRead, ticks, skipped, completed>>
    /\ UNCHANGED uiVars

getLatestSnapshot ==
    /\ lastRead' = published
    /\ UNCHANGED <<cluster, fetched, nodes, links, graph, prevGraph, clock, pc, step, ok,
                   produced, mayFail, active, published, atStart, shutdown, ticks, skipped, completed>>
    /\ UNCHANGED uiVars

----------------------------------------------------------------------------
(* The consumer: GET /api/graph, ClusterDataSchema, fetchGraph.            *)
(* A JSON object is a record with the set of its keys.                     *)

\* the envelope of a published snapshot: message for the statuses other than
\* success, data for success and empty
Envelope(s) ==
    [status |-> s.status,
     keys |-> {"status"}
              \cup (IF s.status # "success" THEN {"message"} ELSE {})
              \cup (IF s.status \in {"success", "empty"} THEN {"data"} ELSE {}),
     message |-> "",
     data |-> s.data]

NoResponse == [status |-> "none", keys |-> {}, message |-> "", data |-> NoGraph]

\* the JSON the route answers with when the backend call fails
ErrorResponse(message) ==
    [status |-> "error", keys |-> {"status", "message"}, message |-> message,
     data |-> NoGraph]

\* the error envelope of the backend itself
BackendError ==
    [status |-> "error", keys |-> {"status", "error"}, message |-> "", data |-> NoGraph]

\* what the route handler's fetch of the backend gives: it throws, or it gives
\* a response with a status code, a status text and a body that is JSON or not
Fetched(status, statusText, json, body) ==
    [outcome |-> "response", status |-> status, statusText |-> statusText,
     json |-> json, body |-> body]

FetchThrew ==
    [outcome |-> "throws", status |-> 0, statusText |-> "", json |-> FALSE,
     body |-> NoResponse]

NoFetch == [FetchThrew EXCEPT !.outcome = "none"]

\* the answers of a backend whose slot holds snapshot
Upstreams(snapshot) ==
    {Fetched(200, "OK", TRUE, Envelope(snapshot)),
     Fetched(200, "OK", TRUE, BackendError),
     Fetched(200, "OK", FALSE, NoResponse),
     Fetched(503, "Service Unavailable", TRUE, BackendError),
     Fetched(404, "Not Found", FALSE, NoResponse),
     FetchThrew}

\* Response.ok
Ok(status) == status >= 200 /\ status <= 299

\* NextResponse.json(body, { status }) and new NextResponse(text, { status })
Json(body, status) == [code |-> status, json |-> TRUE, body |-> body]
Text(text, status) ==
    [code |-> status, json |-> FALSE, body |-> [NoResponse EXCEPT !.message = text]]

NoAnswer == [code |-> 0, json |-> FALSE, body |-> NoResponse]

\* a route handler that answers failures in plain text
GETPlainText(up) ==
    IF up.outcome = "throws" \/ (Ok(up.status) /\ ~up.json)
    THEN Text("Internal Server Error", 500)
    ELSE IF ~Ok(up.status)
    THEN Text(up.statusText, up.status)
    ELSE Json(up.body, 200)

\* the route handler: the backend's JSON, or the error object; a throw of
\* fetch or of response.json() ends in the catch block
GET(up) ==
    IF up.outcome = "throws" \/ (Ok(up.status) /\ ~up.json)
    THEN Json(ErrorResponse("Failed to connect to backend service"), 500)
    ELSE IF ~Ok(up.status)
    THEN Json(ErrorResponse(up.statusText), up.status)
    ELSE Json(up.body, 200)

Severities == {"info", "low", "medium", "high", "critical"}

KnownTags ==
    {"privileged_container", "running_as_root", "dangerous_capabilities", "host_network",
     "host_pid", "host_ipc", "host_path_mount", "missing_resource_limits",
     "automounted_sa_token", "default_serviceaccount", "nodeport_service",
     "unrestricted_loadbalancer", "loadbalancer_service", "no_network_policy",
     "rbac_wildcard", "mutable_image_tag", "untrusted_registry"}

vulnerabilitySchema(v) == v.type \in KnownTags /\ v.severity \in Severities

NodeSchema(n) ==
    /\ n.type \in {"namespace", "node", "pod", "service"}
    /\ \A k \in DOMAIN n.findings : vulnerabilitySchema(n.findings[k])

LinkSchema(l) == l.type \in {"contains", "runs-on", "exposes"}

StatsSchema(st) ==
    /\ StatsNodeTypes \subseteq DOMAIN st.node_types
    /\ StatsLinkTypes \subseteq DOMAIN st.link_types

DataSchema(d) ==
    /\ \A i \in DOMAIN d.nodes : NodeSchema(d.nodes[i])
    /\ \A i \in DOMAIN d.links : LinkSchema(d.links[i])
    /\ StatsSchema(d.stats)

\* safeParse(json).success of the discriminated union on "status"
ClusterDataSchema(e) ==
    CASE e.status = "success" -> "data" \in e.keys /\ DataSchema(e.data)
      [] e.status = "waiting" -> "message" \in e.keys
      [] e.status = "initializing" ->
            "message" \in e.keys /\ ("data" \in e.keys => DataSchema(e.data))
      [] e.status = "empty" ->
            "message" \in e.keys /\ "data" \in e.keys /\ DataSchema(e.data)
      [] e.status = "error" -> "error" \in e.keys
      [] OTHER -> FALSE

NoCall == [success |-> FALSE, data |-> NoResponse]

\* fetchGraph: the parsed body, or { success: false } when fetch or
\* response.json() throws or the body fails the schema
fetchGraph(net, ans) ==
    IF net = "ok" /\ ans.json /\ ClusterDataSchema(ans.body)
    THEN [success |-> TRUE, data |-> ans.body]
    ELSE NoCall

----------------------------------------------------------------------------
(* The demo page: the graph store, fetchData and the layout.               *)
(* A position is 0 for { x: 0, y: 0 } and the rank ELK gave the node        *)
(* otherwise.                                                               *)

StoreNode(id, position, vulnerabilityCount) ==
    [id |-> id, position |-> position, vulnerabilityCount |-> vulnerabilityCount]

StoreEdge(source, target) ==
    [id |-> source \o Dash \o target, source |-> source, target |-> target]

Root == <<"r", "o", "o", "t">>
Child(n) == <<"c", "h", "i", "l", "d", "-", n>>
Grandchild(n, l) == <<"g", "r", "a", "n", "d", "c", "h", "i", "l", "d", "-", n, l>>

initialNodes ==
    <<StoreNode(Root, 0, 0), StoreNode(Child("1"), 0, 0),
      StoreNode(Grandchild("1", "a"), 0, 0), StoreNode(Grandchild("1", "b"), 0, 0),
      StoreNode(Child("2"), 0, 0), StoreNode(Grandchild("2", "a"), 0, 0),
      StoreNode(Child("3"), 0, 0), StoreNode(Child("4"), 0, 0)>>

initialEdges ==
    <<StoreEdge(Root, Child("1")),
      StoreEdge(Child("1"), Grandchild("1", "a")),
      StoreEdge(Child("1"), Grandchild("1", "b")),
      StoreEdge(Root, Child("2")),
      StoreEdge(Child("2"), Grandchild("2", "a")),
      [StoreEdge(Child("3"), Grandchild("2", "a")) EXCEPT
          !.id = Child("2") \o Dash \o Grandchild("2", "a") \o <<"a">>],
      StoreEdge(Root, Child("3")),
      StoreEdge(Root, Child("4")),
      [StoreEdge(Child("3"), Child("4")) EXCEPT
          !.id = Root \o Dash \o Child("4") \o <<"a", "s">>]>>

sampleIncidents ==
    <<[nodeId |-> NoName, type |-> "Network Policy Not Enforced", severity |-> "high"],
      [nodeId |-> NoName, type |-> "Outdated Image Version", severity |-> "medium"],
      [nodeId |-> NoName, type |-> "Privileged Container", severity |-> "critical"],
      [nodeId |-> NoName, type |-> "Missing Resource Limits", severity |-> "high"]>>

\* currentNodes.find((n) => n.id === id): the index of the first match, or 0
Find(currentNodes, id) ==
    IF \E j \in DOMAIN currentNodes : currentNodes[j].id = id
    THEN CHOOSE j \in DOMAIN currentNodes :
            /\ currentNodes[j].id = id
            /\ \A k \in 1..(j - 1) : currentNodes[k].id # id
    ELSE 0

\* apiNodes.map(...) that places every node at { x: 0, y: 0 }
NewNodesAtOrigin(apiNodes, currentNodes) ==
    [i \in DOMAIN apiNodes |->
        StoreNode(apiNodes[i].id, 0, Len(apiNodes[i].findings))]

\* apiNodes.map(...): the ReactFlow node of every API node, at the position
\* of the stored node of the same id when there is one
NewNodes(apiNodes, currentNodes) ==
    [i \in DOMAIN apiNodes |->
        StoreNode(apiNodes[i].id,
                  IF Find(currentNodes, apiNodes[i].id) = 0 THEN 0
                  ELSE currentNodes[Find(currentNodes, apiNodes[i].id)].position,
                  Len(apiNodes[i].findings))]

\* the value of updateLayout after the map
NeedsLayout(apiNodes, currentNodes) ==
    \/ Len(apiNodes) # Len(currentNodes)
    \/ \E i \in DOMAIN apiNodes : Find(currentNodes, apiNodes[i].id) = 0

\* the store's incrementUpdateLayoutCounter
incrementUpdateLayoutCounter(counter) == counter + 1

NewEdges(apiLinks) ==
    [i \in DOMAIN apiLinks |-> StoreEdge(apiLinks[i].source, apiLinks[i].target)]

\* one incident per vulnerability of every node
Incidents(apiNodes) ==
    Concat([i \in DOMAIN apiNodes |->
        [k \in DOMAIN apiNodes[i].findings |->
            [nodeId |-> apiNodes[i].id, type |-> apiNodes[i].findings[k].type,
             severity |-> apiNodes[i].findings[k].severity]]])

IdsOf(ns) == {ns[i].id : i \in DOMAIN ns}

\* [...nodes].sort((a, b) => a.id.localeCompare(b.id)): a stable sort
RECURSIVE Insert(_, _)
Insert(sorted, n) ==
    IF sorted = <<>> THEN <<n>>
    ELSE IF StrCmp(n.id, sorted[Len(sorted)].id) >= 0 THEN Append(sorted, n)
    ELSE Append(Insert(SubSeq(sorted, 1, Len(sorted) - 1), n), sorted[Len(sorted)])

RECURSIVE SortById(_)
SortById(ns) ==
    IF ns = <<>> THEN <<>>
    ELSE Insert(SortById(SubSeq(ns, 1, Len(ns) - 1)), ns[Len(ns)])

\* the nodes getLayoutedElements resolves to: the nodes it was given, sorted
\* by id, each at the position ELK computed (a node that has a position keeps
\* it when onlyNew is set)
getLayoutedElements(ns, onlyNew) ==
    LET sortedNodes == SortById(ns)
    IN  [i \in DOMAIN sortedNodes |->
            IF onlyNew /\ sortedNodes[i].position # 0
            THEN sortedNodes[i]
            ELSE [sortedNodes[i] EXCEPT !.position = i]]

NoNewest == [n |-> 0, ids |-> {}]

\* a page that leaves the status of an empty cluster at "empty"
StatusShownEmpty(c, seen, current) ==
    IF ~c.success THEN "waiting"
    ELSE CASE c.data.status = "waiting" -> "waiting"
           [] c.data.status = "initializing" -> "initializing"
           [] c.data.status = "empty" -> "empty"
           [] c.data.status = "error" -> "waiting"
           [] OTHER -> IF seen # "ready" THEN "ready" ELSE current

\* the state the demo page sets for the result of a fetchGraph that was
\* called when the status was seen
StatusShown(c, seen, current) ==
    IF ~c.success THEN "waiting"
    ELSE CASE c.data.status = "waiting" -> "waiting"
           [] c.data.status = "initializing" -> "initializing"
           [] c.data.status = "empty" -> "ready"
           [] c.data.status = "error" -> "waiting"
           [] OTHER -> IF seen # "ready" THEN "ready" ELSE current

\* the interval callback or the effect calls fetchData, which calls
\* fetchGraph, which sends the request
Poll ==
    /\ polls < MaxPolls
    /\ polls' = polls + 1
    /\ fetches' = fetches \cup {[n |-> polls + 1, seen |-> clusterStatus,
                                 stage |-> "sent", upstream |-> NoFetch,
                                 answer |-> NoAnswer]}
    /\ UNCHANGED <<response, call, clusterStatus>>
    /\ UNCHANGED <<pageVars, cardVars, animVars, treeVars>>
    /\ UNCHANGED <<passVars, schedVars>>

\* the name of the page's fetch in mayFail
ApiGraph == "/api/graph"

\* the answers the backend gives while its slot holds snapshot: the
\* snapshot, or, where the fetch may fail, any of Upstreams
Reachable(snapshot) ==
    IF ApiGraph \in mayFail
    THEN Upstreams(snapshot)
    ELSE {Fetched(200, "OK", TRUE, Envelope(snapshot))}

\* the route handler serves a request: it fetches the backend and answers
Route ==
    /\ \E f \in fetches, up \in Reachable(published) :
          /\ f.stage = "sent"
          /\ fetches' = (fetches \ {f})
                        \cup {[f EXCEPT !.stage = "answered", !.upstream = up,
                                        !.answer = GET(up)]}
    /\ UNCHANGED <<response, call, clusterStatus, polls>>
    /\ UNCHANGED <<pageVars, cardVars, animVars, treeVars>>
    /\ UNCHANGED <<passVars, schedVars>>

\* the page's fetch of /api/graph throws
FetchFails ==
    /\ ApiGraph \in mayFail
    /\ \E f \in fetches :
          /\ f.stage = "sent"
          /\ fetches' = (fetches \ {f}) \cup {[f EXCEPT !.stage = "failed"]}
    /\ UNCHANGED <<response, call, clusterStatus, polls>>
    /\ UNCHANGED <<pageVars, cardVars, animVars, treeVars>>
    /\ UNCHANGED <<passVars, schedVars>>

\* fetchData after its await: the status, and for a success the stores
fetchData ==
    /\ \E f \in fetches :
          /\ f.stage # "sent"
          /\ fetches' = fetches \ {f}
          /\ response' = IF f.stage = "answered" THEN f.answer.body ELSE NoResponse
          /\ call' = fetchGraph(IF f.stage = "answered" THEN "ok" ELSE "throws", f.answer)
          /\ clusterStatus' = StatusShown(call', f.seen, clusterStatus)
          /\ IF call'.success /\ call'.data.status = "success"
             THEN /\ storeNodes' = NewNodes(call'.data.data.nodes, storeNodes)
                  /\ storeEdges' = NewEdges(call'.data.data.links)
                  /\ incidents' = Incidents(call'.data.data.nodes)
                  /\ fullNodesData' = call'.data.data.nodes
                  /\ updateLayoutCounter' =
                        IF NeedsLayout(call'.data.data.nodes, storeNodes)
                        THEN incrementUpdateLayoutCounter(updateLayoutCounter)
                        ELSE updateLayoutCounter
                  /\ newest' = IF f.n > newest.n
                               THEN [n |-> f.n, ids |-> IdsOf(call'.data.data.nodes)]
                               ELSE newest
             ELSE UNCHANGED <<storeNodes, storeEdges, incidents, fullNodesData,
                              updateLayoutCounter, newest>>
    /\ UNCHANGED <<polls, laidOut, layouts, started>>
    /\ UNCHANGED <<cardVars, animVars, treeVars>>
    /\ UNCHANGED <<passVars, schedVars>>

\* onLayout: getLayoutedElements is called with the nodes of the store
StartLayout ==
    /\ started < MaxLayouts
    /\ started' = started + 1
    /\ layouts' = layouts \cup {[k |-> started + 1, nodes |-> storeNodes]}

\* the effect on updateLayoutCounter (it also runs when the graph mounts)
updateLayout ==
    /\ laidOut # updateLayoutCounter
    /\ laidOut' = updateLayoutCounter
    /\ StartLayout
    /\ UNCHANGED <<storeNodes, storeEdges, updateLayoutCounter, incidents,
                   fullNodesData, newest>>
    /\ UNCHANGED <<consumerVars, cardVars, animVars, treeVars>>
    /\ UNCHANGED <<passVars, schedVars>>

\* the Reset Layout button, and the timer set when the graph mounts
onLayout ==
    /\ StartLayout
    /\ UNCHANGED <<storeNodes, storeEdges, updateLayoutCounter, incidents,
                   fullNodesData, laidOut, newest>>
    /\ UNCHANGED <<consumerVars, cardVars, animVars, treeVars>>
    /\ UNCHANGED <<passVars, schedVars>>

\* the promise of getLayoutedElements resolves: to the nodes, or to null
\* when elk.layout has thrown
Layouted ==
    /\ \E l \in layouts, thrown \in BOOLEAN :
          /\ layouts' = layouts \ {l}
          /\ storeNodes' = IF thrown THEN storeNodes
                           ELSE getLayoutedElements(l.nodes, FALSE)
    /\ UNCHANGED <<storeEdges, updateLayoutCounter, incidents, fullNodesData, laidOut,
                   started, newest>>
    /\ UNCHANGED <<consumerVars, cardVars, animVars, treeVars>>
    /\ UNCHANGED <<passVars, schedVars>>

ConsumerIdle ==
    /\ response = NoResponse
    /\ call = NoCall
    /\ clusterStatus = "loading"
    /\ fetches = {}
    /\ polls = 0

PageIdle ==
    /\ storeNodes = initialNodes
    /\ storeEdges = initialEdges
    /\ updateLayoutCounter = 0
    /\ incidents = sampleIncidents
    /\ fullNodesData = <<>>
    /\ laidOut = -1
    /\ layouts = {}
    /\ newest = NoNewest

----------------------------------------------------------------------------
(* The incident report cards of the sidebar: one card per incident, each   *)
(* with its own isLoading, all reading the store of vulnerability states.  *)

\* the ids of the incidents shown, and the id of an incident without one
VulnIds == {"v1", "v2"}
NoId == ""
Cards == VulnIds \cup {NoId}

NoUrl == "null"
PrUrl == "https://pr"

VulnState(state, pr_url) == [state |-> state, pr_url |-> pr_url]

Untouched == VulnState("untouched", NoUrl)
InProcessing == VulnState("in_processing", NoUrl)
PrAvailable == VulnState("pr_available", PrUrl)
PrAnnounced == VulnState("pr_available", NoUrl)

VulnStates == {Untouched, InProcessing, PrAvailable, PrAnnounced}

\* the state a card shows: states[vulnId] || untouched
vulnState(ss, id) == IF id \in DOMAIN ss THEN ss[id] ELSE Untouched

\* the store's setState(id, state)
setState(ss, id, s) ==
    [x \in DOMAIN ss \cup {id} |-> IF x = id THEN s ELSE ss[x]]

\* the maps GET /api/vulnerability-states can report: any state for any id
\* (the backend may not have the id yet, or not know of a running request)
ReportedStates ==
    UNION {[ids -> VulnStates] : ids \in SUBSET VulnIds}

\* the JSON POST /api/vulnerability-fix/<id> answers with; the body null is
\* JSON as well, and reading its status throws
FixResponse(status, hasState, state) ==
    [status |-> status, hasState |-> hasState, state |-> state]

FixError == FixResponse("error", FALSE, Untouched)
NullBody == FixResponse("null", FALSE, Untouched)
NoFixResponse == FixResponse("none", FALSE, Untouched)

FixResponses ==
    {FixResponse("success", TRUE, PrAvailable),
     FixResponse("success", TRUE, InProcessing),
     FixResponse("success", FALSE, Untouched),
     FixError,
     NullBody}

\* triggerVulnerabilityFix: the JSON of the answer, or an error object when
\* fetch or response.json() throws
triggerVulnerabilityFix(net, json) == IF net = "ok" THEN json ELSE FixError

NoFix == [event |-> "none", id |-> NoId, response |-> NoFixResponse]

\* a card that shows the Create PR button whenever the stored state allows
CreatePRShownByState(id) ==
    LET s == vulnState(states, id)
    IN  /\ ~(s.state = "pr_available" /\ s.pr_url # NoUrl)
        /\ s.state # "in_processing"

\* renderActionButton: the card shows the Create PR button
CreatePRShown(id) ==
    LET s == vulnState(states, id)
    IN  /\ ~(s.state = "pr_available" /\ s.pr_url # NoUrl)
        /\ ~(s.state = "in_processing" \/ isLoading[id])

\* a handler that leaves the state of a failed request at in_processing
SettledOptimistic(r) ==
    IF r.status = "success" /\ r.hasState
    THEN r.state
    ELSE InProcessing

\* the state handleCreatePR stores when the request has completed
Settled(r) ==
    IF r.status = "success" /\ r.hasState
    THEN r.state
    ELSE Untouched

\* a click on the Create PR button of a card: handleCreatePR up to its await
handleCreatePR ==
    /\ clicks < MaxClicks
    /\ \E id \in Cards :
          /\ CreatePRShown(id)
          /\ clicks' = clicks + 1
          /\ lastFix' = [event |-> "click", id |-> id, response |-> NoFixResponse]
          /\ IF id = NoId \/ vulnState(states, id).state # "untouched"
             THEN UNCHANGED <<states, isLoading, requests>>
             ELSE /\ isLoading' = [isLoading EXCEPT ![id] = TRUE]
                  /\ states' = setState(states, id, InProcessing)
                  /\ requests' = [requests EXCEPT ![id] = @ + 1]
    /\ UNCHANGED <<passVars, schedVars, consumerVars, pageVars,
                   animVars, treeVars>>

\* a request completes: handleCreatePR after its await
FixCompletes ==
    /\ \E id \in VulnIds, net \in {"ok", "throws"}, json \in FixResponses :
          LET answered == triggerVulnerabilityFix(net, json)
          IN  /\ requests[id] > 0
              /\ states' = setState(states, id, Settled(answered))
              /\ isLoading' = [isLoading EXCEPT ![id] = FALSE]
              /\ requests' = [requests EXCEPT ![id] = @ - 1]
              /\ lastFix' = [event |-> "done", id |-> id, response |-> answered]
    /\ UNCHANGED <<clicks, passVars, schedVars, consumerVars, pageVars,
                   animVars, treeVars>>

\* the state poll: setStates(response.states) when the answer has status
\* success
fetchStates ==
    /\ \E reported \in ReportedStates :
          /\ states' = reported
          /\ states' # states
    /\ UNCHANGED <<isLoading, requests, clicks, lastFix, passVars, schedVars,
                   consumerVars, pageVars, animVars, treeVars>>

CardIdle ==
    /\ states = <<>>
    /\ isLoading = [id \in Cards |-> FALSE]
    /\ requests = [id \in VulnIds |-> 0]
    /\ clicks = 0
    /\ lastFix = NoFix

----------------------------------------------------------------------------
(* The animation manager: a set of updatables and one animation-frame loop. *)
(* frameId 0 is null; scheduled holds the ids of the frame callbacks the    *)
(* browser has still to call; updates counts, for each item, the calls of   *)
(* its update and the frames that fired while it was registered.            *)

Items == {"a", "b", "c"}

NoFrame == 0

NoUpdates == [calls |-> 0, frames |-> 0]

\* requestAnimationFrame gives the next id and keeps the callback
requestAnimationFrame == nextFrame

\* animationManager.add(item)
add ==
    /\ \E item \in Items :
          /\ updatables' = updatables \cup {item}
          /\ IF frameId = NoFrame
             THEN /\ nextFrame <= MaxFrames
                  /\ frameId' = requestAnimationFrame
                  /\ scheduled' = scheduled \cup {requestAnimationFrame}
                  /\ nextFrame' = nextFrame + 1
             ELSE /\ item \notin updatables
                  /\ UNCHANGED <<frameId, scheduled, nextFrame>>
    /\ UNCHANGED <<updates, passVars, schedVars, consumerVars, pageVars, cardVars,
                   treeVars>>

\* animationManager.remove(item)
remove ==
    /\ \E item \in updatables :
          updatables' = updatables \ {item}
    /\ UNCHANGED <<frameId, scheduled, nextFrame, updates, passVars, schedVars,
                   consumerVars, pageVars, cardVars, treeVars>>

\* a loop that keeps its frame id when it stops
loopKeepsFrameId ==
    /\ \E id \in scheduled :
          IF updatables = {}
          THEN /\ scheduled' = scheduled \ {id}
               /\ UNCHANGED <<frameId, nextFrame, updates>>
          ELSE /\ nextFrame <= MaxFrames
               /\ updates' = [item \in Items |->
                                IF item \in updatables
                                THEN [calls |-> updates[item].calls + 1,
                                      frames |-> updates[item].frames + 1]
                                ELSE updates[item]]
               /\ frameId' = requestAnimationFrame
               /\ scheduled' = (scheduled \ {id}) \cup {requestAnimationFrame}
               /\ nextFrame' = nextFrame + 1
    /\ UNCHANGED <<updatables, passVars, schedVars, consumerVars, pageVars,
                   cardVars, treeVars>>

\* the browser calls a frame callback: loop
loop ==
    /\ \E id \in scheduled :
          IF updatables = {}
          THEN /\ frameId' = NoFrame
               /\ scheduled' = scheduled \ {id}
               /\ UNCHANGED <<nextFrame, updates>>
          ELSE /\ nextFrame <= MaxFrames
               /\ updates' = [item \in Items |->
                                IF item \in updatables
                                THEN [calls |-> updates[item].calls + 1,
                                      frames |-> updates[item].frames + 1]
                                ELSE updates[item]]
               /\ frameId' = requestAnimationFrame
               /\ scheduled' = (scheduled \ {id}) \cup {requestAnimationFrame}
               /\ nextFrame' = nextFrame + 1
    /\ UNCHANGED <<updatables, passVars, schedVars, consumerVars, pageVars,
                   cardVars, treeVars>>

AnimIdle ==
    /\ updatables = {}
    /\ frameId = NoFrame
    /\ scheduled = {}
    /\ nextFrame = 1
    /\ updates = [item \in Items |-> NoUpdates]

----------------------------------------------------------------------------
(* The tree graph. A tree is the sequence of the depths of its nodes in     *)
(* preorder: node 1 is the root, and the children of a node follow it, each *)
(* with its own subtree, in the order of the children array. A node is      *)
(* named by its place in that sequence, which is also its id.               *)

IsTree(t) ==
    /\ t[1] = 0
    /\ \A i \in 2..Len(t) : t[i] >= 1 /\ t[i] <= t[i - 1] + 1

Trees ==
    {t \in UNION {[1..n -> 0..(n - 1)] : n \in 1..MaxNodes} : IsTree(t)}

\* node j lies below node i
Below(t, i, j) == j > i /\ \A k \in (i + 1)..j : t[k] > t[i]

\* node.children, in the order of the array
RECURSIVE ChildrenFrom(_, _, _)
ChildrenFrom(t, i, j) ==
    IF j > Len(t) \/ t[j] <= t[i]
    THEN <<>>
    ELSE IF t[j] = t[i] + 1
    THEN <<j>> \o ChildrenFrom(t, i, j + 1)
    ELSE ChildrenFrom(t, i, j + 1)

Children(t, i) == ChildrenFrom(t, i, i + 1)

\* the queue entries for the children of a node: { ...child, level }
RECURSIVE WithLevel(_, _)
WithLevel(cs, level) ==
    IF cs = <<>>
    THEN <<>>
    ELSE <<[node |-> Head(cs), level |-> level]>> \o WithLevel(Tail(cs), level)

\* levels[level].push(node), with levels[level] = [] first when it is missing
Push(ls, level, node) ==
    IF level + 1 > Len(ls)
    THEN Append(ls, <<node>>)
    ELSE [ls EXCEPT ![level + 1] = Append(@, node)]

\* traverse(node) of the connections memo: the pairs it pushes
RECURSIVE traverse(_, _)
RECURSIVE TraverseEach(_, _, _)
TraverseEach(t, i, cs) ==
    IF cs = <<>>
    THEN <<>>
    ELSE <<(<<i, Head(cs)>>)>> \o traverse(t, Head(cs)) \o TraverseEach(t, i, Tail(cs))

traverse(t, i) == TraverseEach(t, i, Children(t, i))

\* an iteration that takes the newest entry of the queue
flattenTreeWithStack ==
    /\ ~flattened
    /\ queue # <<>>
    /\ LET node == queue[Len(queue)]
       IN  /\ levels' = Push(levels, node.level, node.node)
           /\ queue' = SubSeq(queue, 1, Len(queue) - 1)
                          \o WithLevel(Children(tree, node.node), node.level + 1)
    /\ UNCHANGED <<tree, flattened, connections, passVars, schedVars, consumerVars,
                   pageVars, cardVars, animVars>>

\* one iteration of the while loop of flattenTreeToLevels
flattenTreeToLevels ==
    /\ ~flattened
    /\ queue # <<>>
    /\ LET node == Head(queue)
       IN  /\ levels' = Push(levels, node.level, node.node)
           /\ queue' = Tail(queue)
                          \o WithLevel(Children(tree, node.node), node.level + 1)
    /\ UNCHANGED <<tree, flattened, connections, passVars, schedVars, consumerVars,
                   pageVars, cardVars, animVars>>

\* the loop has ended: flattenTreeToLevels returns levels and TreeGraph
\* computes its connections
TreeGraph ==
    /\ ~flattened
    /\ queue = <<>>
    /\ flattened' = TRUE
    /\ connections' = traverse(tree, 1)
    /\ UNCHANGED <<tree, queue, levels, passVars, schedVars, consumerVars,
                   pageVars, cardVars, animVars>>

\* the tree graph of a single node has been rendered
TreeIdle ==
    /\ tree = <<0>>
    /\ queue = <<>>
    /\ levels = <<(<<1>>)>>
    /\ flattened = TRUE
    /\ connections = <<>>

----------------------------------------------------------------------------
(* Clusters *)

RefPod == Pod(<<(<<"a">>), (<<"b">>)>>, WorkerName, AppX, BarePod)
SafePod == Pod(<<(<<"a">>), (<<"b", "-", "b">>)>>, WorkerName, {}, HardenedPod)

RefCluster ==
    [namespaces |-> <<(<<"a">>)>>, nodes |-> <<WorkerName>>, pods |-> <<RefPod>>,
     services |-> <<Service(<<"a">>, AppX, "ClusterIP")>>, ingresses |-> <<>>,
     roles |-> <<>>, policies |-> {}]

SmallClusters == {NoListings, RefCluster}

WildRole == [name |-> <<"r">>, rules |-> <<{"verbs"}, {}, {"verbs", "resources", "apiGroups"}>>]

FindingClusters ==
    [namespaces : {<<(<<"a">>)>>},
     nodes : {<<WorkerName>>},
     pods : {<<>>, <<RefPod>>, <<RefPod, SafePod>>},
     services : {<<>>, <<Service(<<"a">>, AppX, "NodePort")>>},
     ingresses : {<<>>},
     roles : {<<>>, <<WildRole>>},
     policies : {{}, {<<"a">>}}]

TopologyClusters ==
    [namespaces : NamespaceListings,
     nodes : NodeListings,
     pods : Listings(TopologyPods, MaxPods),
     services : ServiceListings,
     ingresses : IngressListings,
     roles : {<<>>, <<WildRole>>},
     policies : {{}}]

\* securityContexts of a container
SecurityContexts ==
    {NoSecurityContext} \cup
    {SecurityContext(p, n, u) :
        p \in {"unset", "true"}, n \in {"unset", "true", "false"},
        u \in {"unset", "0", "1000"}}

AxisSets == SUBSET {Axes[a] : a \in DOMAIN Axes}

\* one ClusterRole 'r' with up to MaxRules rules
RuleRoles ==
    {<<>>} \cup
    {<<[name |-> <<"r">>, rules |-> rs]>> :
        rs \in UNION {[1..k -> AxisSets] : k \in 0..MaxRules}}

\* the reference cluster: one namespace, one node, one pod, one service
ReferenceCluster(sec, roles) ==
    [namespaces |-> <<(<<"a">>)>>, nodes |-> <<WorkerName>>,
     pods |-> <<Pod(<<(<<"a">>), (<<"b">>)>>, WorkerName, AppX, sec)>>,
     services |-> <<Service(<<"a">>, AppX, "ClusterIP")>>, ingresses |-> <<>>,
     roles |-> roles, policies |-> {}]

\* the pod of the reference scenario: no securityContext, no limits; the
\* attributes the scenario leaves open take each of their values
ReferencePods ==
    {[BarePod EXCEPT !.automount = am, !.serviceAccount = sa, !.tag = tag] :
        am \in {"unset", "true", "false"}, sa \in {"default", "app"},
        tag \in {"latest", "1.25"}}

RuleClusters ==
    {ReferenceCluster([BarePod EXCEPT !.sc = c], rs) :
        c \in SecurityContexts, rs \in RuleRoles}
    \cup {ReferenceCluster(sec, <<>>) : sec \in ReferencePods}

\* a finding with a tag that is not one of the 17 of the consumer's schema
FutureFinding == PodFinding("future_tag", "low", "container_security", RefPod)

ConsumerClusters ==
    {[l EXCEPT !.ingresses = ing] :
        l \in FindingClusters,
        ing \in {<<>>, <<Ingress(<<"a">>, <<(<<SvcName>>)>>)>>}}

\* the snapshot a pass over l publishes when its rules return fs
SnapshotOf(l, fs) ==
    LET g == build_graph(AttachFindings(BuildNodes(<<>>, l), fs), BuildLinks(<<>>, l), 1)
    IN  [status |-> StatusOf(g), data |-> g, summary |-> [p \in FetchPoints |-> TRUE]]

\* snapshots the publisher's slot can hold when the page polls
ConsumerSnapshots ==
    {Waiting, [Waiting EXCEPT !.status = "initializing"], SnapshotOf(NoListings, <<>>)}
    \cup {SnapshotOf(l, ScanAll(l) \o extra) :
            l \in ConsumerClusters, extra \in {<<>>, <<FutureFinding>>}}

\* snapshots of the reference cluster with the pods ps
PageSnapshot(ps) ==
    SnapshotOf([RefCluster EXCEPT !.pods = ps], ScanAll([RefCluster EXCEPT !.pods = ps]))

\* snapshots the slot holds while the demo page is open
PageSnapshots ==
    {SnapshotOf(NoListings, <<>>), PageSnapshot(<<RefPod>>), PageSnapshot(<<SafePod>>),
     PageSnapshot(<<RefPod, SafePod>>)}

\* a pass of the backend ends and publishes another snapshot
Republish ==
    /\ ticks < MaxTicks
    /\ ticks' = ticks + 1
    /\ completed' = completed + 1
    /\ published' \in PageSnapshots \ {published}
    /\ UNCHANGED <<active, atStart, lastRead, shutdown, skipped>>
    /\ UNCHANGED passVars
    /\ UNCHANGED uiVars

\* the cluster changes between two passes
ClusterChanges ==
    /\ pc = "idle"
    /\ cluster' \in SmallClusters \ {cluster}
    /\ UNCHANGED <<fetched, nodes, links, graph, prevGraph, clock, pc, step, ok, produced,
                   mayFail>>
    /\ UNCHANGED schedVars
    /\ UNCHANGED uiVars

\* the next invocation of scan_topology over the same listings
Rescan ==
    /\ pc = "publish"
    /\ active = 0
    /\ clock <= MaxRuns
    /\ pc' = "assemble"
    /\ UNCHANGED <<cluster, fetched, nodes, links, graph, prevGraph, clock, step, ok,
                   produced, mayFail>>
    /\ UNCHANGED schedVars
    /\ UNCHANGED uiVars

----------------------------------------------------------------------------
(* Specifications *)

SchedIdle ==
    /\ nodes = <<>>
    /\ links = <<>>
    /\ graph = NoGraph
    /\ prevGraph = NoGraph
    /\ clock = 1
    /\ step = 1
    /\ ok = NothingFetched
    /\ active = 0
    /\ published = Waiting
    /\ atStart = Waiting
    /\ lastRead = Waiting
    /\ shutdown = FALSE
    /\ skipped = 0
    /\ completed = 0

Idle ==
    /\ SchedIdle
    /\ ConsumerIdle
    /\ PageIdle
    /\ started = 0
    /\ CardIdle
    /\ AnimIdle
    /\ TreeIdle

\* the scheduler and the publisher over a small cluster
Init ==
    /\ cluster \in SmallClusters
    /\ fetched = NoListings
    /\ produced = <<>>
    /\ pc = "idle"
    /\ mayFail = {}
    /\ ticks = 0
    /\ Idle

Next ==
    \/ Tick
    \/ TickUnreachable
    \/ ScanStep
    \/ FetchKind
    \/ Assemble
    \/ Publish
    \/ Throw
    \/ PublishFails
    \/ Shutdown
    \/ getLatestSnapshot
    \/ ClusterChanges

Spec == Init /\ [][Next]_vars

\* one pass in which every listing call may fail
InitPass ==
    /\ cluster \in FindingClusters
    /\ fetched = NoListings
    /\ produced = <<>>
    /\ pc = "idle"
    /\ mayFail = FetchPoints
    /\ ticks = MaxTicks - 1
    /\ Idle

NextPass ==
    \/ Tick
    \/ ScanStep
    \/ FetchKind
    \/ Assemble
    \/ Publish

SpecPass == InitPass /\ [][NextPass]_vars

\* one pass over the clusters that exercise the rules
InitRules ==
    /\ cluster \in RuleClusters
    /\ fetched = NoListings
    /\ produced = <<>>
    /\ pc = "idle"
    /\ mayFail = {}
    /\ ticks = MaxTicks - 1
    /\ Idle

SpecRules == InitRules /\ [][NextPass]_vars

\* the scheduler under fair ticks; the failures end before the last tick
InitLive ==
    /\ cluster \in SmallClusters
    /\ fetched = NoListings
    /\ produced = <<>>
    /\ pc = "idle"
    /\ mayFail \in {{}, {"rbac_wildcards", "pods"}}
    /\ ticks = 0
    /\ Idle

\* the API is unreachable at a tick that is not the last one
Outage == ticks < MaxTicks - 1 /\ TickUnreachable

\* a transport failure aborts a pass that is not the one of the last tick
PassThrows == ticks < MaxTicks /\ Throw

NextLive ==
    \/ Tick
    \/ Outage
    \/ ScanStep
    \/ FetchKind
    \/ Assemble
    \/ Publish
    \/ PassThrows

SpecLive ==
    /\ InitLive
    /\ [][NextLive]_vars
    /\ WF_vars(Tick)
    /\ WF_vars(ScanStep)
    /\ WF_vars(FetchKind)
    /\ WF_vars(Assemble)
    /\ WF_vars(Publish)

\* the demo page polling a backend whose slot holds some snapshot
InitConsumer ==
    /\ cluster = NoListings
    /\ fetched = NoListings
    /\ produced = <<>>
    /\ pc = "idle"
    /\ mayFail = {ApiGraph}
    /\ ticks = 0
    /\ nodes = <<>>
    /\ links = <<>>
    /\ graph = NoGraph
    /\ prevGraph = NoGraph
    /\ clock = 1
    /\ step = 1
    /\ ok = NothingFetched
    /\ active = 0
    /\ published \in ConsumerSnapshots
    /\ atStart = Waiting
    /\ lastRead = Waiting
    /\ shutdown = FALSE
    /\ skipped = 0
    /\ completed = 0
    /\ response = NoResponse
    /\ call = NoCall
    /\ clusterStatus = "loading"
    /\ fetches = {}
    /\ polls = MaxPolls - 1
    /\ PageIdle
    /\ started = 0
    /\ CardIdle
    /\ AnimIdle
    /\ TreeIdle

NextConsumer ==
    \/ Poll
    \/ Route
    \/ FetchFails
    \/ fetchData

SpecConsumer == InitConsumer /\ [][NextConsumer]_vars

\* the demo page open while the backend publishes twice and one layout runs
InitPage ==
    /\ cluster = NoListings
    /\ fetched = NoListings
    /\ produced = <<>>
    /\ pc = "idle"
    /\ mayFail = {}
    /\ ticks = MaxTicks - 2
    /\ SchedIdle
    /\ ConsumerIdle
    /\ PageIdle
    /\ started = MaxLayouts - 1
    /\ CardIdle
    /\ AnimIdle
    /\ TreeIdle

NextPage ==
    \/ Republish
    \/ Poll
    \/ Route
    \/ fetchData
    \/ updateLayout
    \/ onLayout
    \/ Layouted

SpecPage == InitPage /\ [][NextPage]_vars

\* the sidebar's cards, the fix requests and the state poll
InitCard ==
    /\ cluster = NoListings
    /\ fetched = NoListings
    /\ produced = <<>>
    /\ pc = "idle"
    /\ mayFail = {}
    /\ ticks = 0
    /\ Idle

NextCard ==
    \/ handleCreatePR
    \/ FixCompletes
    \/ fetchStates

SpecCard == InitCard /\ [][NextCard]_vars

\* the animation manager with lines mounting and unmounting
InitAnim ==
    /\ cluster = NoListings
    /\ fetched = NoListings
    /\ produced = <<>>
    /\ pc = "idle"
    /\ mayFail = {}
    /\ ticks = 0
    /\ Idle

NextAnim ==
    \/ add
    \/ remove
    \/ loop

SpecAnim == InitAnim /\ [][NextAnim]_vars

\* TreeGraph rendering a tree: the loop of flattenTreeToLevels runs on
InitTree ==
    /\ cluster = NoListings
    /\ fetched = NoListings
    /\ produced = <<>>
    /\ pc = "idle"
    /\ mayFail = {}
    /\ ticks = 0
    /\ SchedIdle
    /\ ConsumerIdle
    /\ PageIdle
    /\ started = 0
    /\ CardIdle
    /\ AnimIdle
    /\ tree \in Trees
    /\ queue = <<[node |-> 1, level |-> 0]>>
    /\ levels = <<>>
    /\ flattened = FALSE
    /\ connections = <<>>

NextTree ==
    \/ flattenTreeToLevels
    \/ TreeGraph

SpecTree == InitTree /\ [][NextTree]_vars /\ WF_vars(NextTree)

\* the builder run repeatedly over one set of listings
InitGraph ==
    /\ cluster \in TopologyClusters
    /\ fetched = cluster
    /\ produced = ScanAll(cluster)
    /\ pc = "assemble"
    /\ mayFail = {}
    /\ ticks = 0
    /\ Idle

NextGraph ==
    \/ Assemble
    \/ Rescan

SpecGraph == InitGraph /\ [][NextGraph]_vars

----------------------------------------------------------------------------
(* Claims about the assembled Graph (SpecGraph) *)

Built == pc = "publish"

NodeIds(g) == {g.nodes[i].id : i \in DOMAIN g.nodes}

\* C1: in every Graph, the source and the target of every edge are ids of
\* nodes of that Graph, whatever the listings returned.
EdgeIntegrity ==
    Built => \A i \in DOMAIN graph.links :
                /\ graph.links[i].source \in NodeIds(graph)
                /\ graph.links[i].target \in NodeIds(graph)

\* C2: node ids are injective: two nodes of a Graph with the same id come
\* from the same resource (same kind, namespace and name).
IdInjective ==
    Built => \A i, j \in DOMAIN graph.nodes :
                graph.nodes[i].id = graph.nodes[j].id => i = j

\* the alphabetical rank of the edge kinds
KindRank(k) ==
    CASE k = "contains" -> 1
      [] k = "exposes" -> 2
      [] k = "routes-to" -> 3
      [] k = "runs-on" -> 4

\* (source, target, kind) of a is at most that of b
LinkLeq(a, b) ==
    LET cs == StrCmp(a.source, b.source)
        ct == StrCmp(a.target, b.target)
    IN  \/ cs < 0
        \/ cs = 0 /\ ct < 0
        \/ cs = 0 /\ ct = 0 /\ KindRank(a.type) <= KindRank(b.type)

\* C10: the edge list of every Graph is sorted by (source, target, kind).
EdgesSorted ==
    Built => \A i \in DOMAIN graph.links :
                i < Len(graph.links) => LinkLeq(graph.links[i], graph.links[i + 1])

TwoRuns == Built /\ clock > 2

Holders(g, f) ==
    {i \in DOMAIN g.nodes : \E j \in DOMAIN g.nodes[i].findings : g.nodes[i].findings[j] = f}

\* C8: every finding the rule categories produced is in the findings of
\* exactly one node of the Graph, the node of the object that owns it.
NoOrphanFinding ==
    Built =>
        \A k \in DOMAIN produced :
            /\ Cardinality(Holders(graph, produced[k])) = 1
            /\ \A i \in Holders(graph, produced[k]) : Owns(graph.nodes[i], produced[k])

----------------------------------------------------------------------------
(* Claims about one pass with failing listing calls (SpecPass) *)

PassPublished == pc = "idle" /\ published.status \in {"success", "empty"}

\* the listings with those of the failed resource kinds empty
Masked(l, sum) ==
    [namespaces |-> IF sum["namespaces"] THEN l.namespaces ELSE <<>>,
     nodes |-> IF sum["nodes"] THEN l.nodes ELSE <<>>,
     pods |-> IF sum["pods"] THEN l.pods ELSE <<>>,
     services |-> IF sum["services"] THEN l.services ELSE <<>>,
     ingresses |-> IF sum["ingresses"] THEN l.ingresses ELSE <<>>,
     roles |-> l.roles,
     policies |-> l.policies]

\* the findings of the categories whose listing call succeeded
MaskedFindings(l, sum) ==
    Concat([i \in DOMAIN Categories |->
        IF sum[Categories[i]] THEN ScanCategory(Categories[i], l) ELSE <<>>])

----------------------------------------------------------------------------
(* Claims about the scheduler and the publisher (Spec) *)

\* C3: once a success snapshot is published, the slot changes only by the
\* publication that ends a pass, to the Graph that pass built; the status
\* never goes back to waiting or initializing.
NoRegress ==
    [][published.status = "success" =>
          /\ published'.status \notin {"waiting", "initializing"}
          /\ \/ published' = published
             \/ /\ pc = "publish"
                /\ pc' = "idle"
                /\ published'.data = graph
                /\ published'.status = StatusOf(graph)]_vars

\* a pass that started after a success ended without publishing
NoRegressWitness ==
    /\ pc = "idle"
    /\ ticks > 1
    /\ clock > 1
    /\ published.status = "success"
    /\ atStart = published

Complete(s) ==
    IF s.status \in {"success", "empty"}
    THEN /\ s.data.timestamp > 0
         /\ s.data.stats = ComputeStats(s.data.nodes, s.data.links)
         /\ s.status = StatusOf(s.data)
    ELSE s.data = NoGraph

SingleFlight ==
    [][/\ active' <= 1
       /\ active' > active => (active = 0 /\ ticks' = ticks + 1)
       /\ skipped' # skipped => UNCHANGED <<pc, step, active, fetched, published>>]_vars

\* a tick was skipped, the pass it met has published, no pass is running
SingleFlightWitness ==
    /\ skipped > 0
    /\ active = 0
    /\ pc = "idle"
    /\ published.status = "success"
    /\ published.data.timestamp = clock - 1

\* C7: after a shutdown that met a pass in flight the slot holds the
\* snapshot it held when that pass started.
Cancellation == pc = "cancelled" => (published = atStart /\ active = 0)

\* cancelled when the new Graph was built and not yet published
CancellationWitness ==
    /\ pc = "cancelled"
    /\ atStart.status = "success"
    /\ graph # atStart.data
    /\ lastRead = published

----------------------------------------------------------------------------
(* Claims about the exposure edges (SpecGraph) *)

\* the exposes edges of g from the id of service s to the id of pod p
ExposesEdges(g, s, p) ==
    {i \in DOMAIN g.links :
        /\ g.links[i].type = "exposes"
        /\ g.links[i].source = ServiceId(s.namespace, s.name)
        /\ g.links[i].target = PodId(p.namespace, p.name)}

\* same namespace, non-empty selector, every selector key among the pod's
\* labels with an equal value
SelectorMatch(s, p) ==
    /\ s.namespace = p.namespace
    /\ s.selector # {}
    /\ \A kv \in s.selector : \E lv \in p.labels : lv[1] = kv[1] /\ lv[2] = kv[2]

\* C11: for every Service S and Pod P of the listings there is exactly one
\* exposes edge from S to P when S and P are in the same namespace, S's
\* selector is non-empty and is a subset of P's labels, and none otherwise.
SelectorMatching ==
    Built =>
        \A i \in DOMAIN fetched.services : \A j \in DOMAIN fetched.pods :
            Cardinality(ExposesEdges(graph, fetched.services[i], fetched.pods[j])) =
                IF SelectorMatch(fetched.services[i], fetched.pods[j]) THEN 1 ELSE 0

----------------------------------------------------------------------------
(* Claims about the published status (Spec) *)

\* C12: once a pass has completed, the status is empty when the published
\* Graph has no nodes and success otherwise; an empty snapshot has neither
\* nodes nor links; the status is waiting only while no pass has completed.
StatusPublished ==
    /\ completed > 0 =>
          /\ published.status \in {"empty", "success"}
          /\ published.status = "empty" <=> published.data.nodes = <<>>
    /\ published.status = "empty" =>
          /\ published.data.nodes = <<>>
          /\ published.data.links = <<>>
    /\ published.status = "waiting" => completed = 0
    /\ lastRead.status = "empty" => lastRead.data.nodes = <<>>

\* the cluster was emptied after a success: the second pass published empty
StatusPublishedWitness ==
    /\ completed > 1
    /\ published.status = "empty"
    /\ atStart.status = "success"
    /\ cluster = NoListings

----------------------------------------------------------------------------
(* Claims about the rule engine (SpecRules) *)

\* every listing call of the pass has returned
Scanned == pc = "assemble"

FindingsOf(type, kind, name) ==
    SelectSeq(produced, LAMBDA f : f.type = type /\ f.owner.kind = kind
                                   /\ f.owner.name = name)

WithSeverity(fs, sev) == Cardinality({k \in DOMAIN fs : fs[k].severity = sev})

AllAxes == {Axes[a] : a \in DOMAIN Axes}

RunsAsRoot(sc) == sc.runAsNonRoot # "true" /\ sc.runAsUser \in {"unset", "0"}

----------------------------------------------------------------------------
(* The reference scenario (SpecRules) *)

\* the cluster of the scenario: the pod has no securityContext and no limits
IsReference ==
    /\ cluster.roles = <<>>
    /\ ~cluster.pods[1].sec.sc.present
    /\ cluster.pods[1].sec.limits = {}

ReferenceEdges ==
    {Link(NamespaceId(<<"a">>), PodId(<<"a">>, <<"b">>), "contains"),
     Link(NamespaceId(<<"a">>), ServiceId(<<"a">>, SvcName), "contains"),
     Link(PodId(<<"a">>, <<"b">>), NodeId(WorkerName), "runs-on"),
     Link(ServiceId(<<"a">>, SvcName), PodId(<<"a">>, <<"b">>), "exposes")}

\* 4 nodes and exactly the 4 edges of the scenario
ReferenceTopology(g) ==
    /\ Len(g.nodes) = 4
    /\ Len(g.links) = 4
    /\ {g.links[i] : i \in DOMAIN g.links} = ReferenceEdges

PodFindings(g) ==
    Concat([i \in DOMAIN g.nodes |->
        IF g.nodes[i].type = "pod" THEN g.nodes[i].findings ELSE <<>>])

\* one finding for the CPU limit, one for the memory limit, one for root
ReferenceFindings(fs) ==
    /\ Cardinality({k \in DOMAIN fs : fs[k].type = "missing_resource_limits"
                                      /\ fs[k].detail = "cpu"}) = 1
    /\ Cardinality({k \in DOMAIN fs : fs[k].type = "missing_resource_limits"
                                      /\ fs[k].detail = "memory"}) = 1
    /\ Cardinality({k \in DOMAIN fs : fs[k].type = "running_as_root"}) = 1

FurtherFindings(sec) ==
    (IF sec.automount # "false" THEN 1 ELSE 0)
    + (IF sec.serviceAccount = "default" THEN 1 ELSE 0)
    + (IF sec.tag = "latest" THEN 1 ELSE 0)

----------------------------------------------------------------------------
(* Claims about the consumer (SpecConsumer) *)

HasUnknownTag(d) ==
    \E i \in DOMAIN d.nodes : \E k \in DOMAIN d.nodes[i].findings :
        d.nodes[i].findings[k].type \notin KnownTags

\* the data without the findings of unknown tags
StripUnknown(d) ==
    [d EXCEPT !.nodes =
        [i \in DOMAIN d.nodes |->
            [d.nodes[i] EXCEPT !.findings =
                SelectSeq(d.nodes[i].findings, LAMBDA v : v.type \in KnownTags)]]]

\* C16: when the answer of /api/graph has status success and a node carries
\* a finding of an unknown tag (and the answer is accepted without that
\* finding), fetchGraph returns success and the page shows the graph.
UnknownTagsIgnored ==
    (/\ response.status = "success"
     /\ HasUnknownTag(response.data)
     /\ ClusterDataSchema([response EXCEPT !.data = StripUnknown(response.data)]))
    => (call.success /\ clusterStatus = "ready")

\* the published shape of the external interface
ConformsToShape(e) ==
    /\ e.status \in {"success", "waiting", "initializing", "empty", "error"}
    /\ e.status # "success" => "message" \in e.keys
    /\ e.status \in {"success", "empty"} => "data" \in e.keys
    /\ "data" \in e.keys =>
          /\ \A i \in DOMAIN e.data.nodes :
                /\ e.data.nodes[i].type \in NodeKinds
                /\ \A k \in DOMAIN e.data.nodes[i].findings :
                      /\ e.data.nodes[i].findings[k].type \in KnownTags
                      /\ e.data.nodes[i].findings[k].severity \in Severities
          /\ \A i \in DOMAIN e.data.links : e.data.links[i].type \in LinkKinds

\* C17: every answer of /api/graph that conforms to the published shape is
\* accepted by ClusterDataSchema, so fetchGraph returns success for it.
ConsumerAccepts ==
    (response # NoResponse /\ ConformsToShape(response)) =>
        (ClusterDataSchema(response) /\ call.success)

----------------------------------------------------------------------------
(* Claims about stats and duplicates (SpecGraph) *)

\* the count stats gives for kind k (0 when stats has no such key)
CountOf(counts, k) == IF k \in DOMAIN counts THEN counts[k] ELSE 0

RECURSIVE SumOver(_, _)
SumOver(counts, ks) ==
    IF ks = {} THEN 0
    ELSE LET k == CHOOSE x \in ks : TRUE
         IN  counts[k] + SumOver(counts, ks \ {k})

\* C18: stats.total_nodes and stats.total_links are the numbers of nodes and
\* links, every kind's count in node_types and link_types is the number of
\* nodes or links of that kind, and the counts sum to the totals.
StatsAggregate ==
    Built =>
        /\ graph.stats.total_nodes = Len(graph.nodes)
        /\ graph.stats.total_links = Len(graph.links)
        /\ \A k \in NodeKinds :
              CountOf(graph.stats.node_types, k) =
                  Cardinality({i \in DOMAIN graph.nodes : graph.nodes[i].type = k})
        /\ \A k \in LinkKinds :
              CountOf(graph.stats.link_types, k) =
                  Cardinality({i \in DOMAIN graph.links : graph.links[i].type = k})
        /\ SumOver(graph.stats.node_types, DOMAIN graph.stats.node_types)
              = graph.stats.total_nodes
        /\ SumOver(graph.stats.link_types, DOMAIN graph.stats.link_types)
              = graph.stats.total_links

\* C19: no two nodes of a Graph have the same id and no two edges have the
\* same (source, target, kind).
Deduplicated ==
    Built =>
        /\ \A i, j \in DOMAIN graph.nodes :
              graph.nodes[i].id = graph.nodes[j].id => i = j
        /\ \A i, j \in DOMAIN graph.links :
              (/\ graph.links[i].source = graph.links[j].source
               /\ graph.links[i].target = graph.links[j].target
               /\ graph.links[i].type = graph.links[j].type) => i = j

----------------------------------------------------------------------------
(* Claims about recovery (SpecLive) *)

\* C20: under fair ticks, with the API reachable and no pass aborted from
\* some tick on, a snapshot with status success or empty is eventually
\* published, whatever failed before: a failed pass leaves the scheduler
\* running.
Recovery == []~shutdown /\ <>(published.status \in {"success", "empty"})

\* the only pass that published is the one of the last tick
RecoveryWitness ==
    /\ published.status \in {"success", "empty"}
    /\ ticks = MaxTicks
    /\ skipped = 0
    /\ completed = 1
    /\ pc = "idle"

----------------------------------------------------------------------------
(* Claims about the scheduling and containment edges (SpecGraph) *)

\* the edges of kind k of g whose source is id
EdgesFrom(g, k, id) ==
    {i \in DOMAIN g.links : g.links[i].type = k /\ g.links[i].source = id}

\* the edges of kind k of g whose target is id
EdgesTo(g, k, id) ==
    {i \in DOMAIN g.links : g.links[i].type = k /\ g.links[i].target = id}

\* exactly one contains edge ends at id, and it starts at namespace ns
ContainedIn(g, id, ns) ==
    /\ Cardinality(EdgesTo(g, "contains", id)) = 1
    /\ \A i \in EdgesTo(g, "contains", id) : g.links[i].source = NamespaceId(ns)

\* C21: a Pod with a non-empty nodeName has exactly one runs-on edge, from
\* its id to the id of the node of that name, and a Pod without nodeName has
\* none; every Pod and every Service has exactly one contains edge, from the
\* id of the namespace of its own namespace field.
SchedulingEdges ==
    Built =>
        /\ \A j \in DOMAIN fetched.pods :
              LET p == fetched.pods[j]
                  out == EdgesFrom(graph, "runs-on", PodId(p.namespace, p.name))
              IN  /\ p.node_name # NoName =>
                        /\ Cardinality(out) = 1
                        /\ \A i \in out : graph.links[i].target = NodeId(p.node_name)
                  /\ p.node_name = NoName => out = {}
                  /\ ContainedIn(graph, PodId(p.namespace, p.name), p.namespace)
        /\ \A j \in DOMAIN fetched.services :
              ContainedIn(graph, ServiceId(fetched.services[j].namespace,
                                           fetched.services[j].name),
                          fetched.services[j].namespace)

----------------------------------------------------------------------------
(* Claims about the demo page (SpecPage) *)

\* a step in which fetchData resumes after its await
Handles == Cardinality(fetches') < Cardinality(fetches)

\* C22: after the page has handled a response with status empty the graph
\* store holds no nodes and no edges and clusterStatus is ready, whatever
\* the store held before.
EmptyShowsEmptyGraph ==
    [][(Handles /\ call'.success /\ call'.data.status = "empty") =>
          /\ storeNodes' = <<>>
          /\ storeEdges' = <<>>
          /\ clusterStatus' = "ready"]_vars

\* C23: once no fetch and no layout is in flight, the node ids of the graph
\* store are those of the most recently issued poll that returned success.
StoreFollowsNewestPoll ==
    (fetches = {} /\ layouts = {} /\ newest.n > 0) => IdsOf(storeNodes) = newest.ids

\* C26: on a success response the store's nodes are the API nodes, in the
\* same order with the same ids; a node whose id was in the store keeps the
\* stored position and every other node is at (0, 0); the layout counter is
\* incremented exactly when the number of API nodes differs from the number
\* of stored nodes or some API node id is not in the store.
SuccessUpdatesStore ==
    [][(Handles /\ call'.success /\ call'.data.status = "success") =>
          LET apiNodes == call'.data.data.nodes
              fresh == {i \in DOMAIN apiNodes : apiNodes[i].id \notin IdsOf(storeNodes)}
          IN  /\ Len(storeNodes') = Len(apiNodes)
              /\ \A i \in DOMAIN apiNodes :
                    /\ storeNodes'[i].id = apiNodes[i].id
                    /\ i \in fresh => storeNodes'[i].position = 0
                    /\ i \notin fresh =>
                          \E j \in DOMAIN storeNodes :
                              /\ storeNodes[j].id = apiNodes[i].id
                              /\ storeNodes[j].position = storeNodes'[i].position
              /\ updateLayoutCounter' =
                    IF Len(apiNodes) # Len(storeNodes) \/ fresh # {}
                    THEN updateLayoutCounter + 1
                    ELSE updateLayoutCounter]_vars

\* a success response was handled after a layout: the nodes that were in the
\* store kept the positions of the layout, the new node is at (0, 0)
SuccessUpdatesStoreWitness ==
    /\ call.success
    /\ call.data.status = "success"
    /\ fullNodesData = call.data.data.nodes
    /\ Len(storeNodes) = Len(fullNodesData)
    /\ \A i \in DOMAIN storeNodes : storeNodes[i].id = fullNodesData[i].id
    /\ \E i, j \in DOMAIN storeNodes :
          storeNodes[i].position # 0 /\ storeNodes[j].position = 0
    /\ updateLayoutCounter = 2

----------------------------------------------------------------------------
(* Claims about the answers that are no success (SpecConsumer) *)

ProxyAnswersJson ==
    \A f \in fetches :
        f.stage = "answered" =>
            LET up == f.upstream
                a == f.answer
                threw == up.outcome = "throws" \/ (Ok(up.status) /\ ~up.json)
            IN  /\ a.json
                /\ a.code # NoAnswer.code
                /\ (~threw /\ Ok(up.status)) => a.body = up.body
                /\ (~threw /\ ~Ok(up.status)) =>
                      /\ a.body.keys = {"status", "message"}
                      /\ a.body.status = "error"
                      /\ a.body.message = up.statusText
                      /\ a.code = up.status
                /\ threw => a.body.status = "error" /\ a.code = 500

\* the backend has answered 503 and the handler has passed the status on in
\* an error object, and another fetch of the backend has thrown
ProxyAnswersJsonWitness ==
    /\ \E f \in fetches :
          /\ f.stage = "answered"
          /\ f.upstream.outcome = "response"
          /\ f.upstream.status = 503
          /\ f.answer.json
          /\ f.answer.code = 503
          /\ f.answer.body.message = "Service Unavailable"

----------------------------------------------------------------------------
(* Claims about the Create PR button (SpecCard) *)

Clicked == clicks' = clicks + 1
Completed == \E id \in VulnIds : requests'[id] < requests[id]

\* C24: handleCreatePR sends no fix request when the id is missing or the
\* state of the vulnerability is not untouched; otherwise the state is
\* in_processing when the request is issued; when the request completes the
\* state is the state of the answer if the answer has status success and a
\* state, and untouched in every other case; isLoading is false afterwards.
CreatePRHandled ==
    [][/\ Clicked =>
            LET id == lastFix'.id
            IN  IF id = NoId \/ vulnState(states, id).state # "untouched"
                THEN requests' = requests /\ states' = states /\ ~isLoading'[id]
                ELSE /\ requests' = [requests EXCEPT ![id] = @ + 1]
                     /\ vulnState(states', id).state = "in_processing"
       /\ Completed =>
            LET id == lastFix'.id
                r == lastFix'.response
            IN  /\ requests' = [requests EXCEPT ![id] = @ - 1]
                /\ vulnState(states', id) =
                      (IF r.status = "success" /\ r.hasState
                       THEN r.state
                       ELSE Untouched)
                /\ ~isLoading'[id]]_vars

\* a request for v1 has been answered with the body null, and the card is
\* back at untouched and not loading
CreatePRHandledWitness ==
    /\ lastFix.event = "done"
    /\ lastFix.id = "v1"
    /\ lastFix.response = NullBody
    /\ vulnState(states, "v1") = Untouched
    /\ ~isLoading["v1"]
    /\ requests["v1"] = 0

----------------------------------------------------------------------------
(* Claims about the animation manager (SpecAnim) *)

\* C28: after any sequence of add, remove and frame callbacks at most one
\* frame callback is pending, and one is pending whenever an updatable is
\* registered; when no callback is pending frameId is null (a frame that
\* fired with nothing registered scheduled nothing), and the pending callback
\* is the one frameId names; update has been called on every item once for
\* each frame that fired while it was registered.
OneLoopRuns ==
    /\ Cardinality(scheduled) <= 1
    /\ updatables # {} => scheduled # {}
    /\ scheduled = {} => frameId = NoFrame
    /\ scheduled # {} => scheduled = {frameId}
    /\ \A item \in Items : updates[item].calls = updates[item].frames

\* three frames were requested and one update was called: one of the two
\* frames that fired found nothing registered and stopped the loop, and a
\* later add started it again
OneLoopRunsWitness ==
    /\ frameId = 3
    /\ scheduled = {3}
    /\ \E item \in updatables :
          /\ updates[item].calls = 1
          /\ \A other \in Items \ {item} : updates[other].calls = 0

----------------------------------------------------------------------------
(* Claims about the tree graph (SpecTree) *)

\* the nodes of depth d
AtDepth(t, d) == {i \in 1..Len(t) : t[i] = d}

\* the parent of a node that is not the root
Parent(t, i) == CHOOSE j \in 1..(i - 1) : t[j] = t[i] - 1 /\ Below(t, j, i)

\* a level lists the nodes of its depth once each, from left to right (in a
\* preorder numbering that is the ascending order)
LevelsRight(t, ls) ==
    /\ \A i \in 1..Len(t) : t[i] + 1 <= Len(ls)
    /\ \A l \in 1..Len(ls) :
          /\ ls[l] # <<>>
          /\ {ls[l][k] : k \in 1..Len(ls[l])} = AtDepth(t, l - 1)
          /\ \A k \in 1..(Len(ls[l]) - 1) : ls[l][k] < ls[l][k + 1]

ConnectionsRight(t, cs) ==
    /\ Len(cs) = Len(t) - 1
    /\ {cs[k] : k \in 1..Len(cs)} = {<<Parent(t, i), i>> : i \in 2..Len(t)}

\* C30: flattenTreeToLevels ends on every finite tree, and then every node
\* appears exactly once, a node of depth d in levels[d], each level in
\* breadth-first order; the connections hold exactly one (parent, child)
\* pair for each parent-child relation.
LevelsFlattened ==
    /\ <>(flattened /\ queue = <<>>)
    /\ [](flattened => LevelsRight(tree, levels) /\ ConnectionsRight(tree, connections))

\* a tree of five nodes with two children that have a child each has been
\* flattened into three levels
LevelsFlattenedWitness ==
    /\ flattened
    /\ tree = <<0, 1, 2, 1, 2>>
    /\ levels = <<(<<1>>), <<2, 4>>, <<3, 5>>>>
    /\ connections = <<(<<1, 2>>), <<2, 3>>, <<1, 4>>, <<4, 5>>>>

====
